---- MODULE Spec2Model ----
(***************************************************************************)
(* Model of src/src/dependency_check.py: the version classifier            *)
(* compare_versions and the comparison driver compare_packages.            *)
(*                                                                         *)
(* A Python str is modelled as a sequence of one-character strings, so     *)
(* that split, startswith, replace and the regular-expression search are   *)
(* computed on characters as the code computes them.  An exception is a    *)
(* one-element sequence whose element is longer than one character, so it  *)
(* is equal to no Python str.                                              *)
(***************************************************************************)
EXTENDS Naturals, Sequences, FiniteSets

VARIABLES
    cv_current,       \* compare_versions: argument current_version
    cv_latest,        \* compare_versions: argument latest_version
    cv_result,        \* compare_versions: returned value, or the exception raised
    packages,         \* compare_packages: the manifest lines read from the file
    idx,              \* compare_packages: position of the for loop in packages
    version_compare,  \* compare_packages: the report (header row + data rows)
    queries,          \* the subprocess.run calls made so far
    pc,               \* "run" | "done" | "aborted"
    error,            \* the uncaught exception that ended the run, or NoError
    csv_file,         \* the file written by csv.writer (path and rows), or NoFile
    printed           \* the lines printed for the console table, or NoPrint

vars == <<cv_current, cv_latest, cv_result, packages, idx, version_compare,
          queries, pc, error, csv_file, printed>>

cv_vars == <<cv_current, cv_latest, cv_result>>
cp_vars == <<packages, idx, version_compare, queries, pc, error, csv_file, printed>>

(***************************************************************************)
(* Bounds of the model.                                                    *)
(***************************************************************************)
MaxComponents == 4   \* longest version string, in dot-separated components
MaxLines == 2        \* longest manifest, in lines

(***************************************************************************)
(* Python string literals of the program.                                  *)
(***************************************************************************)
NA == <<"n", "/", "a">>
MATCH == <<"m", "a", "t", "c", "h">>
MAJOR == <<"m", "a", "j", "o", "r">>
MINOR == <<"m", "i", "n", "o", "r">>
PATCH == <<"p", "a", "t", "c", "h">>
DOT == <<".">>
EQEQ == <<"=", "=">>
AT == <<" ", "@", " ">>
SLASH == <<"/">>
FILE == <<"f", "i", "l", "e">>
HTTP == <<"h", "t", "t", "p">>
DOTCSV == <<".", "c", "s", "v">>
VERSION_CHECK_CSV == <<"/", "v", "e", "r", "s", "i", "o", "n", "_",
                       "c", "h", "e", "c", "k", ".", "c", "s", "v">>
HEADER == << <<"p", "a", "c", "k", "a", "g", "e">>,
             <<"v", "e", "r", "s", "i", "o", "n">>,
             <<"l", "a", "t", "e", "s", "t">>,
             <<"c", "o", "m", "p", "a", "r", "e">> >>

KeyError == <<"KeyError">>
IndexError == <<"IndexError">>
NoError == <<"NoError">>
Pending == <<"Pending">>
None == <<"None">>
NoPrint == <<"NoPrint">>
NoFile == [path |-> <<>>, rows |-> <<>>]

(***************************************************************************)
(* str operations.                                                         *)
(***************************************************************************)
Min(a, b) == IF a <= b THEN a ELSE b

\* s[i:] of Python with i counted from 1
Drop(s, i) == SubSeq(s, i, Len(s))

\* s.startswith(prefix)
startswith(s, prefix) ==
    /\ Len(prefix) <= Len(s)
    /\ SubSeq(s, 1, Len(prefix)) = prefix

\* s.endswith(suffix)
endswith(s, suffix) ==
    /\ Len(suffix) <= Len(s)
    /\ SubSeq(s, Len(s) - Len(suffix) + 1, Len(s)) = suffix

\* the positions at which sep occurs in s
Occurrences(s, sep) ==
    {p \in 1..Len(s) :
        /\ p + Len(sep) - 1 <= Len(s)
        /\ \A i \in 1..Len(sep) : s[p + i - 1] = sep[i]}

\* sep in s
Contains(s, sep) == Occurrences(s, sep) # {}

\* the least element of a non-empty set of numbers
Least(S) == CHOOSE p \in S : \A q \in S : p <= q

\* s.split(sep): left to right, non-overlapping occurrences of sep
RECURSIVE split(_, _)
split(s, sep) ==
    IF ~Contains(s, sep)
    THEN <<s>>
    ELSE LET p == Least(Occurrences(s, sep))
         IN <<SubSeq(s, 1, p - 1)>> \o split(Drop(s, p + Len(sep)), sep)

\* sep.join(parts)
RECURSIVE join(_, _)
join(sep, parts) ==
    IF Len(parts) = 0 THEN <<>>
    ELSE IF Len(parts) = 1 THEN parts[1]
    ELSE parts[1] \o sep \o join(sep, Tail(parts))

(***************************************************************************)
(* compare_versions                                                        *)
(***************************************************************************)
sem_version_swapped == [i \in {0, 1, 2} |->
    IF i = 0 THEN MAJOR ELSE IF i = 1 THEN PATCH ELSE MINOR]

\* the dict of lines 39-43
sem_version == [i \in {0, 1, 2} |->
    IF i = 0 THEN MAJOR ELSE IF i = 1 THEN MINOR ELSE PATCH]

\* the condition of line 35
is_na(current_version, latest_version) ==
    current_version = NA \/ latest_version = NA

\* zip(a, b): the pairs up to the length of the shorter sequence
zip(a, b) == [i \in 1..Min(Len(a), Len(b)) |-> <<a[i], b[i]>>]

\* sem_version[idx], a KeyError when idx is no key of the dict
lookup(i) == IF i \in DOMAIN sem_version THEN sem_version[i] ELSE KeyError

no_difference_match == MATCH

\* line 48: the value returned when the loop ends without a difference
no_difference == NA

\* lines 45-48: enumerate() counts from 0
first_difference(pairs) ==
    LET differ == {i \in 1..Len(pairs) : pairs[i][1] # pairs[i][2]}
    IN IF differ = {} THEN no_difference ELSE lookup(Least(differ) - 1)

compare_versions_equal_first(current_version, latest_version) ==
    IF current_version = latest_version THEN MATCH
    ELSE IF is_na(current_version, latest_version) THEN NA
    ELSE first_difference(zip(split(current_version, DOT),
                              split(latest_version, DOT)))

\* lines 24-48
compare_versions(current_version, latest_version) ==
    IF is_na(current_version, latest_version) THEN NA
    ELSE IF current_version = latest_version THEN MATCH
    ELSE first_difference(zip(split(current_version, DOT),
                              split(latest_version, DOT)))

(***************************************************************************)
(* Regular expressions.  version_pattern is the name with each '-'         *)
(* replaced by the class [\-_], followed by \-(\d+\.\d+\.\d+).  The name   *)
(* part is kept as a sequence of atoms, one per character of the name: a   *)
(* '-' becomes the class, a '.' stays the wildcard it is in a pattern, any *)
(* other character of a package name (letters, digits, '_') is a literal.  *)
(***************************************************************************)
Digits == {"0", "1", "2", "3", "4", "5", "6", "7", "8", "9"}

UpperCase == <<"A", "B", "C", "D", "E", "F", "G", "H", "I", "J", "K", "L", "M",
               "N", "O", "P", "Q", "R", "S", "T", "U", "V", "W", "X", "Y", "Z">>
LowerCase == <<"a", "b", "c", "d", "e", "f", "g", "h", "i", "j", "k", "l", "m",
               "n", "o", "p", "q", "r", "s", "t", "u", "v", "w", "x", "y", "z">>

\* re.IGNORECASE: characters are compared after case folding
CaseFold == [c \in {UpperCase[i] : i \in 1..26} |->
                LowerCase[CHOOSE i \in 1..26 : UpperCase[i] = c]]

Lower(c) == IF c \in DOMAIN CaseFold THEN CaseFold[c] ELSE c

\* line 80: package_info[0].replace('-', '[\\-_]')
package_string(name) ==
    [i \in 1..Len(name) |->
        IF name[i] = "-" THEN [kind |-> "class", ch |-> "-"]
        ELSE IF name[i] = "." THEN [kind |-> "any", ch |-> "."]
        ELSE [kind |-> "lit", ch |-> name[i]]]

atom_matches(atom, c) ==
    IF atom.kind = "class" THEN c \in {"-", "_"}
    ELSE IF atom.kind = "any" THEN c # "\n"
    ELSE Lower(atom.ch) = Lower(c)

\* the position after the longest run of digits of text that starts at p
digits_end(text, p) ==
    Least({q \in p..(Len(text) + 1) :
              q = Len(text) + 1 \/ text[q] \notin Digits})

\* \d+\.\d+\.\d+ matched at p: the position after the match, 0 without a match
match_version(text, p) ==
    LET e1 == digits_end(text, p)
    IN IF e1 = p \/ e1 > Len(text) \/ text[e1] # "." THEN 0
       ELSE LET e2 == digits_end(text, e1 + 1)
            IN IF e2 = e1 + 1 \/ e2 > Len(text) \/ text[e2] # "." THEN 0
               ELSE LET e3 == digits_end(text, e2 + 1)
                    IN IF e3 = e2 + 1 THEN 0 ELSE e3

\* version_pattern matched at p
match_at(atoms, text, p) ==
    /\ p + Len(atoms) <= Len(text)
    /\ \A i \in 1..Len(atoms) : atom_matches(atoms[i], text[p + i - 1])
    /\ text[p + Len(atoms)] = "-"
    /\ match_version(text, p + Len(atoms) + 1) # 0

\* re.search(version_pattern, text, re.IGNORECASE): group 1 of the leftmost
\* match, None without a match
re_search(atoms, text) ==
    LET starts == {p \in 1..Len(text) : match_at(atoms, text, p)}
    IN IF starts = {} THEN None
       ELSE LET v == Least(starts) + Len(atoms) + 1
            IN SubSeq(text, v, match_version(text, v) - 1)

\* str(dry_install.stdout): the repr of a bytes object
str_of_bytes(b) == <<"b", "'">> \o b \o <<"'">>

(***************************************************************************)
(* compare_packages                                                        *)
(***************************************************************************)
package_info_padded(package) ==
    LET parts == IF Contains(package, EQEQ) THEN split(package, EQEQ)
                 ELSE split(package, AT)
    IN IF Len(parts) < 2 THEN parts \o <<<<>>>> ELSE parts

\* lines 75-78
package_info(package) ==
    IF Contains(package, EQEQ) THEN split(package, EQEQ)
    ELSE split(package, AT)

\* line 88: package_info[1].split('/')[-1]
last_segment(reference) ==
    LET segments == split(reference, SLASH)
    IN segments[Len(segments)]

declared_version_unguarded(name, reference) ==
    LET file_version == re_search(package_string(name), reference)
    IN IF file_version # None THEN file_version ELSE last_segment(reference)

\* lines 82-88: the value package_info[1] holds after the reference handling
declared_version(name, reference) ==
    IF startswith(reference, FILE) \/ startswith(reference, HTTP)
    THEN LET file_version == re_search(package_string(name), reference)
         IN IF file_version # None THEN file_version
            ELSE last_segment(reference)
    ELSE reference

latest_version_any_returncode(name, dry_install) ==
    LET version_search == re_search(package_string(name),
                                    str_of_bytes(dry_install.stdout))
    IN IF version_search # None THEN version_search ELSE NA

\* lines 95-103: version
latest_version(name, dry_install) ==
    IF dry_install.returncode = 0
    THEN LET version_search == re_search(package_string(name),
                                         str_of_bytes(dry_install.stdout))
         IN IF version_search # None THEN version_search ELSE NA
    ELSE NA

\* lines 104-105: [*package_info, version, comparison]
row(info, dry_install) ==
    LET declared == declared_version(info[1], info[2])
        version == latest_version(info[1], dry_install)
        comparison == compare_versions(declared, version)
    IN [info EXCEPT ![2] = declared] \o <<version, comparison>>

insert_row(rows, r) == <<rows[1], r>> \o Tail(rows)

\* line 105: version_compare.append(...)
append_row(rows, r) == Append(rows, r)

\* lines 109-112: the path the CSV file is written to
csv_path(output_file, isdir) ==
    IF isdir THEN output_file \o VERSION_CHECK_CSV
    ELSE IF ~endswith(output_file, DOTCSV) THEN output_file \o DOTCSV
    ELSE output_file

Max(S) == CHOOSE m \in S : \A x \in S : x <= m

\* f"{value:<{width}}"
pad(value, width) ==
    value \o [i \in 1..(IF width > Len(value) THEN width - Len(value) ELSE 0)
                 |-> " "]

\* lines 117-122: zip(*rows) and zip(row, column_widths) stop at the
\* shortest sequence
compare_string(rows) ==
    LET ncols == Max({0} \cup {n \in 1..Len(rows[1]) :
                                  \A i \in 1..Len(rows) : n <= Len(rows[i])})
        column_widths == [c \in 1..ncols |->
                             Max({Len(rows[i][c]) : i \in 1..Len(rows)})]
    IN join(<<"\n">>,
            [i \in 1..Len(rows) |->
                join(<<" ", " ">>,
                     [c \in 1..ncols |-> pad(rows[i][c], column_widths[c])])])

(***************************************************************************)
(* The inputs of the driver: manifest lines of every shape the code        *)
(* distinguishes, and the outcomes of the pip subprocess.                  *)
(***************************************************************************)
\* 'ab==1.2.3'
LinePinned == <<"a", "b">> \o EQEQ \o <<"1", ".", "2", ".", "3">>
\* 'a-b==2.0.9'
LinePinnedHyphen == <<"a", "-", "b">> \o EQEQ \o <<"2", ".", "0", ".", "9">>
\* 'a-b @ file:/p/A_b-2.0.10.gz'
LineFileUnderscore == <<"a", "-", "b">> \o AT \o FILE \o <<":", "/", "p", "/",
    "A", "_", "b", "-", "2", ".", "0", ".", "1", "0", ".", "g", "z">>
\* 'ab @ http:/h/c.whl'
LineUrlNoVersion == <<"a", "b">> \o AT \o HTTP \o <<":", "/", "h", "/",
    "c", ".", "w", "h", "l">>
\* 'ab @ git:/h/ab-1.2.3'
LineOtherPrefix == <<"a", "b">> \o AT \o <<"g", "i", "t", ":", "/", "h", "/",
    "a", "b", "-", "1", ".", "2", ".", "3">>
\* ''
LineEmpty == <<>>
\* 'ab>=1'
LineNoSeparator == <<"a", "b", ">", "=", "1">>
\* '==1.2.3'
LineNoName == EQEQ \o <<"1", ".", "2", ".", "3">>
\* 'ab==1==2'
LineTwoSeparators == <<"a", "b">> \o EQEQ \o <<"1">> \o EQEQ \o <<"2">>
\* 'ab==http/x'
LinePinnedHttp == <<"a", "b">> \o EQEQ \o HTTP \o <<"/", "x">>

Lines == {LinePinned, LinePinnedHyphen, LineFileUnderscore,
          LineUrlNoVersion, LineOtherPrefix, LineEmpty, LineNoSeparator,
          LineNoName, LineTwoSeparators, LinePinnedHttp}

Manifests == UNION {[1..n -> Lines] : n \in 0..MaxLines}

\* ' a_b-2.0.10 ab-1.3.0'
StdoutNewer == <<" ", "a", "_", "b", "-", "2", ".", "0", ".", "1", "0",
                 " ", "a", "b", "-", "1", ".", "3", ".", "0">>
\* 'ERROR'
StdoutNothing == <<"E", "R", "R", "O", "R">>

DryInstalls == {[returncode |-> 0, stdout |-> StdoutNewer],
                [returncode |-> 0, stdout |-> StdoutNothing],
                [returncode |-> 1, stdout |-> StdoutNewer]}

\* the values of output_file: none, a directory, a .csv path, another path
OutputDir == <<"o">>
OutputFiles == {<<>>, OutputDir, <<"r">> \o DOTCSV, <<"r">>}

CvIdle ==
    /\ cv_current = <<>>
    /\ cv_latest = <<>>
    /\ cv_result = Pending

\* lines 62-70: the manifest is read and the report holds the header (the
\* 'Comparing N packages' message of line 64 is no part of the report and is
\* left out of printed)
Init ==
    /\ packages \in Manifests
    /\ idx = 1
    /\ version_compare = <<HEADER>>
    /\ queries = <<>>
    /\ pc = "run"
    /\ error = NoError
    /\ csv_file = NoFile
    /\ printed = NoPrint
    /\ CvIdle

\* lines 73-105: one pass of the for loop
LoopBody ==
    /\ pc = "run"
    /\ idx <= Len(packages)
    /\ LET info == package_info(packages[idx])
       IN IF Len(info) < 2
          THEN \* line 82: package_info[1] raises IndexError
               /\ pc' = "aborted"
               /\ error' = IndexError
               /\ UNCHANGED <<idx, version_compare, queries>>
          ELSE \E dry_install \in DryInstalls :
               /\ queries' = Append(queries, [name |-> info[1],
                                              result |-> dry_install])
               /\ version_compare' =
                      append_row(version_compare, row(info, dry_install))
               /\ idx' = idx + 1
               /\ UNCHANGED <<pc, error>>
    /\ UNCHANGED <<packages, csv_file, printed>>
    /\ UNCHANGED cv_vars

\* lines 107-123: the report is written as CSV or printed as a table
Output ==
    /\ pc = "run"
    /\ idx > Len(packages)
    /\ \E output_file \in OutputFiles :
          IF output_file # <<>>
          THEN /\ csv_file' = [path |-> csv_path(output_file,
                                                 output_file = OutputDir),
                               rows |-> version_compare]
               /\ UNCHANGED printed
          ELSE /\ printed' = compare_string(version_compare)
               /\ UNCHANGED csv_file
    /\ pc' = "done"
    /\ UNCHANGED <<packages, idx, version_compare, queries, error>>
    /\ UNCHANGED cv_vars

Next == LoopBody \/ Output

Spec == Init /\ [][Next]_vars

(***************************************************************************)
(* The classifier called on its own: the arguments are drawn from the      *)
(* sentinel, the empty string and the strings of one to MaxComponents      *)
(* components, numeric and not.                                            *)
(***************************************************************************)
Components == {<<"1">>, <<"1", "0">>, <<"b">>}

ComponentLists == UNION {[1..n -> Components] : n \in 1..MaxComponents}

VersionStrings == {join(DOT, cs) : cs \in ComponentLists} \cup {NA, <<>>}

CpIdle ==
    /\ packages = <<>>
    /\ idx = 1
    /\ version_compare = <<HEADER>>
    /\ queries = <<>>
    /\ pc = "idle"
    /\ error = NoError
    /\ csv_file = NoFile
    /\ printed = NoPrint

InitCV ==
    /\ cv_current \in VersionStrings
    /\ cv_latest \in VersionStrings
    /\ cv_result = Pending
    /\ CpIdle

CallCompareVersions ==
    /\ cv_result = Pending
    /\ cv_result' = compare_versions(cv_current, cv_latest)
    /\ UNCHANGED <<cv_current, cv_latest>>
    /\ UNCHANGED cp_vars

NextCV == CallCompareVersions

SpecCV == InitCV /\ [][NextCV]_vars

(***************************************************************************)
(* Properties of compare_versions, checked under SpecCV.                   *)
(***************************************************************************)
Returned == cv_result # Pending

\* C1: for two different strings, neither of them "n/a", split on '.', the
\* first index at which the components differ decides the result: index 0
\* gives 'major', index 1 'minor', index 2 'patch'.
C1_FirstDifferenceClassifies ==
    (Returned /\ cv_current # NA /\ cv_latest # NA /\ cv_current # cv_latest) =>
        LET c == split(cv_current, DOT)
            l == split(cv_latest, DOT)
        IN \A k \in 1..3 :
              (/\ k <= Len(c)
               /\ k <= Len(l)
               /\ c[k] # l[k]
               /\ \A j \in 1..(k - 1) : c[j] = l[j])
              => cv_result = <<MAJOR, MINOR, PATCH>>[k]

\* "1.10.1" against "1.10.b" has been classified as patch
C1_Witness ==
    /\ cv_current = <<"1", ".", "1", "0", ".", "1">>
    /\ cv_latest = <<"1", ".", "1", "0", ".", "b">>
    /\ cv_result = PATCH

\* C2: compare_versions is total: for every pair of strings it returns one of
\* 'match', 'major', 'minor', 'patch', 'n/a' and never ends in an error.
C2_Total ==
    Returned => cv_result \in {MATCH, MAJOR, MINOR, PATCH, NA}

\* C3: with "n/a" as the first argument, as the second or as both the result
\* is 'n/a'; two equal strings other than "n/a" give 'match'.
C3_SentinelAndMatch ==
    Returned =>
        /\ (cv_current = NA \/ cv_latest = NA) => cv_result = NA
        /\ (cv_current # NA /\ cv_current = cv_latest) => cv_result = MATCH

\* compare_versions("n/a", "n/a") has returned 'n/a'
C3_Witness ==
    /\ cv_current = NA
    /\ cv_latest = NA
    /\ cv_result = NA

\* C4: two different strings, neither "n/a", that agree on every component up
\* to the length of the shorter one and differ in their number of components
\* give 'n/a'.
C4_ShorterPrefixIsNA ==
    (Returned /\ cv_current # NA /\ cv_latest # NA /\ cv_current # cv_latest) =>
        LET c == split(cv_current, DOT)
            l == split(cv_latest, DOT)
        IN (/\ Len(c) # Len(l)
            /\ \A j \in 1..Min(Len(c), Len(l)) : c[j] = l[j])
           => cv_result = NA

\* "1.10" against "1.10.1" has returned 'n/a'
C4_Witness ==
    /\ cv_current = <<"1", ".", "1", "0">>
    /\ cv_latest = <<"1", ".", "1", "0", ".", "1">>
    /\ cv_result = NA

(***************************************************************************)
(* Properties of compare_packages, checked under Spec.                     *)
(***************************************************************************)
\* a line with neither '==' nor ' @ '
Malformed(line) == ~Contains(line, EQEQ) /\ ~Contains(line, AT)

MalformedLines == {i \in 1..Len(packages) : Malformed(packages[i])}

\* the output step: the loop is over and nothing has been written yet
AtOutput == pc = "run" /\ idx > Len(packages)

\* the index query of a recorded call failed or gave nothing parseable
Failed(q) ==
    \/ q.result.returncode # 0
    \/ re_search(package_string(q.name), str_of_bytes(q.result.stdout)) = None

\* the text of line after the first occurrence of sep
TextAfter(line, sep) == Drop(line, Least(Occurrences(line, sep)) + Len(sep))

\* the text of reference after its last '/'
FinalSegment(reference) ==
    Drop(reference, Max({0} \cup Occurrences(reference, SLASH)) + 1)

\* the data rows so far are the rows of the first lines, in manifest order
RowsFollowManifest ==
    /\ version_compare[1] = HEADER
    /\ Len(version_compare) <= Len(packages) + 1
    /\ \A k \in 1..(Len(version_compare) - 1) :
          /\ \/ startswith(packages[k], version_compare[k + 1][1] \o EQEQ)
             \/ startswith(packages[k], version_compare[k + 1][1] \o AT)
          /\ version_compare[k + 1] =
                 row(package_info(packages[k]), queries[k].result)
    /\ AtOutput => Len(version_compare) = Len(packages) + 1
    /\ (pc = "done" /\ csv_file # NoFile) => csv_file.rows = version_compare

\* a step appends rows at most: it removes, reorders and changes none
AppendOnly ==
    /\ Len(version_compare') >= Len(version_compare)
    /\ \A k \in 1..Len(version_compare) :
          version_compare'[k] = version_compare[k]

\* C5: at the output step the report is the header row followed by one row
\* per manifest line, in manifest order; rows are only ever appended, never
\* reordered, removed, merged or changed, and duplicate lines give a row each.
C5_ReportFollowsManifest ==
    []RowsFollowManifest /\ [][AppendOnly]_vars

\* a two-line manifest has been written as CSV: header and two rows
C5_Witness ==
    /\ pc = "done"
    /\ packages = <<LinePinnedHyphen, LinePinned>>
    /\ Len(csv_file.rows) = 3
    /\ csv_file.rows[2][1] = <<"a", "-", "b">>
    /\ csv_file.rows[3][1] = <<"a", "b">>

\* C6: a failed or unparseable index query is not fatal: the row of that
\* line holds 'n/a' as latest version and as classification, the loop goes
\* on to the next line, and every line is queried and gets its row.  (The
\* two values are the last two fields of the row, as line 105 builds it.)
C6_QueryFailureIsNotFatal ==
    /\ \A k \in 1..Len(queries) :
          Failed(queries[k]) =>
              /\ Len(version_compare) > k
              /\ LET r == version_compare[k + 1]
                 IN r[Len(r) - 1] = NA /\ r[Len(r)] = NA
              /\ idx > k
    /\ Len(queries) = idx - 1
    /\ Len(version_compare) = idx
    /\ pc = "aborted" => Malformed(packages[idx])
    /\ pc = "done" => Len(queries) = Len(packages)

\* the query of the first line failed, the second line was still queried
\* and got a row with a version
C6_Witness ==
    /\ pc = "done"
    /\ Len(packages) = 2
    /\ Failed(queries[1])
    /\ version_compare[2][3] = NA
    /\ version_compare[2][4] = NA
    /\ ~Failed(queries[2])
    /\ version_compare[3][3] # NA

MalformedRequirementError == <<"MalformedRequirementError">>

\* C7: a manifest line with neither '==' nor ' @ ' makes the parser fail with
\* a MalformedRequirementError and the whole run aborts: no report is
\* printed and no CSV file is written.
C7_Original ==
    MalformedLines # {} =>
        /\ pc # "done"
        /\ csv_file = NoFile
        /\ printed = NoPrint
        /\ pc = "aborted" => error = MalformedRequirementError

\* C7 as the code has it: the run ends at the first such line with an
\* uncaught IndexError; nothing is printed or written, the rows of the lines
\* before it are dropped with the run.
C7_AbortsWithIndexError ==
    /\ MalformedLines # {} =>
          /\ pc # "done"
          /\ csv_file = NoFile
          /\ printed = NoPrint
          /\ idx <= Least(MalformedLines)
    /\ pc = "aborted" =>
          /\ MalformedLines # {}
          /\ idx = Least(MalformedLines)
          /\ error = IndexError
    /\ pc # "aborted" => error = NoError

\* the run has aborted at an empty second line, after a well-formed first one
C7_Witness ==
    /\ packages = <<LinePinned, LineEmpty>>
    /\ pc = "aborted"
    /\ Len(version_compare) = 2
    /\ csv_file = NoFile
    /\ printed = NoPrint

\* C8: a line with an empty name makes the parser fail, so every data row has
\* a non-empty package name and no index query is issued for an empty name.
C8_NameNeverEmpty ==
    /\ \A k \in 2..Len(version_compare) : version_compare[k][1] # <<>>
    /\ \A k \in 1..Len(queries) : queries[k].name # <<>>

\* C9: a line that contains '==' gives a row of exactly four fields whose
\* declared version is the text after the separator, verbatim.
C9_PinnedLineVerbatim ==
    \A k \in 1..(Len(version_compare) - 1) :
        Contains(packages[k], EQEQ) =>
            /\ Len(version_compare[k + 1]) = 4
            /\ version_compare[k + 1][2] = TextAfter(packages[k], EQEQ)

\* a line without '==' that splits on ' @ ' into a name and a reference
IsReferenceLine(line) ==
    ~Contains(line, EQEQ) /\ Len(split(line, AT)) = 2

\* the captured version when the pattern matches, else the final path segment
PatternOrFinalSegment(name, reference) ==
    LET m == re_search(package_string(name), reference)
    IN IF m # None THEN m ELSE FinalSegment(reference)

\* C10: for a 'name @ reference' line the declared version is the version
\* captured by the pattern, else the final path segment of the reference,
\* whatever prefix the reference begins with.
C10_Original ==
    \A k \in 1..(Len(version_compare) - 1) :
        IsReferenceLine(packages[k]) =>
            LET info == split(packages[k], AT)
            IN version_compare[k + 1][2] =
                   PatternOrFinalSegment(info[1], info[2])

\* C10 as the code has it: so for a reference that begins with 'file' or
\* 'http'; any other reference is the declared version as it stands.
C10_FileOrHttpReference ==
    \A k \in 1..(Len(version_compare) - 1) :
        IsReferenceLine(packages[k]) =>
            LET info == split(packages[k], AT)
            IN version_compare[k + 1][2] =
                   IF startswith(info[2], FILE) \/ startswith(info[2], HTTP)
                   THEN PatternOrFinalSegment(info[1], info[2])
                   ELSE info[2]

\* rows of a file reference that embeds a version and of a reference with
\* another prefix
C10_Witness ==
    /\ packages = <<LineFileUnderscore, LineOtherPrefix>>
    /\ Len(version_compare) = 3
    /\ version_compare[2][2] = <<"2", ".", "0", ".", "1", "0">>
    /\ version_compare[3][2] = TextAfter(LineOtherPrefix, AT)

====
